---- MODULE Spec2Model ----
(***************************************************************************)
(* A model of V8Simple (src/V8Simple.cpp): the tagged value model and its  *)
(* conversion to and from the engine's native values (Value::Wrap,         *)
(* Value::Unwrap), the Context singleton and its fault routing, Object     *)
(* property access, and the Callback bridge with its one-shot argument     *)
(* vector.                                                                 *)
(***************************************************************************)
EXTENDS Integers, Sequences, FiniteSets, TLC

(***************************************************************************)
(* Bounds of the exploration.                                              *)
(***************************************************************************)
\* longest byte string / code-unit string drawn as an input
MaxStrLen == 2
\* number of Context objects the embedder creates in one run
MaxCtx == 2
\* number of native function objects one Callback is unwrapped into
MaxFns == 2
\* number of native arguments of one bridged Callback invocation
MaxArgs == 3
MaxDepth == 3

\* largest and smallest value of a 32-bit integer (Value::IsInt32, Int payload)
Int32Max == 2147483647
Int32Min == 0 - Int32Max - 1

(***************************************************************************)
(* Doubles.  A double is [cls, n]: "int" is the integral value n, "over"   *)
(* is the integral value 2^32 * n (n # 0, beyond every 32-bit integer),    *)
(* "frac" is n + 1/2, "negzero" is -0.0 and "nan" is NaN.                  *)
(***************************************************************************)
DInt(n) == [cls |-> "int", n |-> n]
DOver(n) == [cls |-> "over", n |-> n]
DFrac(n) == [cls |-> "frac", n |-> n]
DNegZero == [cls |-> "negzero", n |-> 0]
DNaN == [cls |-> "nan", n |-> 0]

IntSamples == {Int32Min, 0 - 1, 0, 2, Int32Max}
DoubleSamples ==
    {DInt(i) : i \in IntSamples}
        \cup {DOver(0 - 1), DOver(1), DFrac(1), DNegZero, DNaN}

\* v8::internal::IsInt32Double: integral, in range, and not minus zero
IsInt32Double(d) == d.cls = "int" /\ d.n >= Int32Min /\ d.n <= Int32Max

(***************************************************************************)
(* Strings.  A String Value owns a byte buffer (a sequence of bytes 0..255 *)
(* of the stated length, followed by a terminating NUL that is not part of *)
(* the sequence).  A native string is a sequence of code units.            *)
(***************************************************************************)
\* bytes drawn as inputs: NUL, 'a', and 0xFF, which is never valid UTF-8
ByteSamples == {0, 97, 255}
\* code units drawn as inputs: NUL, 'a', and U+FFFD
UnitSamples == {0, 97, 65533}

RECURSIVE SeqsUpTo(_, _)
SeqsUpTo(S, n) ==
    IF n = 0 THEN {<<>>}
    ELSE LET shorter == SeqsUpTo(S, n - 1)
         IN  shorter \cup {Append(s, x) : s \in {t \in shorter : Len(t) = n - 1}, x \in S}

\* and the UTF-8 encoding of U+FFFD, a well-formed multi-byte string
ByteStrings == SeqsUpTo(ByteSamples, MaxStrLen) \cup {<<239, 191, 189>>}
UnitStrings == SeqsUpTo(UnitSamples, MaxStrLen)

\* std::strlen / a NUL-terminated read: the bytes before the first NUL
RECURSIVE CStr(_)
CStr(bytes) ==
    IF bytes = <<>> \/ Head(bytes) = 0 THEN <<>>
    ELSE <<Head(bytes)>> \o CStr(Tail(bytes))

\* UTF-8 decoding as v8::String::NewFromUtf8 does it: ASCII bytes are code
\* units, the three bytes EF BF BD are U+FFFD, any other byte is replaced by
\* U+FFFD
RECURSIVE Utf8Decode(_)
Utf8Decode(bytes) ==
    IF bytes = <<>> THEN <<>>
    ELSE IF Head(bytes) < 128 THEN <<Head(bytes)>> \o Utf8Decode(Tail(bytes))
    ELSE IF Len(bytes) >= 3 /\ SubSeq(bytes, 1, 3) = <<239, 191, 189>>
         THEN <<65533>> \o Utf8Decode(SubSeq(bytes, 4, Len(bytes)))
    ELSE <<65533>> \o Utf8Decode(Tail(bytes))

\* UTF-8 encoding as v8::String::Utf8Value does it
RECURSIVE Utf8Encode(_)
Utf8Encode(units) ==
    IF units = <<>> THEN <<>>
    ELSE IF Head(units) < 128 THEN <<Head(units)>> \o Utf8Encode(Tail(units))
    ELSE <<239, 191, 189>> \o Utf8Encode(Tail(units))

(***************************************************************************)
(* The value model.  A Value is a record with its tag and one payload      *)
(* field per variant: i (Int payload; the engine reference of an Object,   *)
(* Array or Function; the identity of a Callback), d (Double), s (the byte *)
(* buffer of a String), b (Bool).  Absent is the null Value*.              *)
(***************************************************************************)
Absent == [tag |-> "Absent", i |-> 0, d |-> DInt(0), s |-> <<>>, b |-> FALSE]
IntV(i) == [Absent EXCEPT !.tag = "Int", !.i = i]
DoubleV(d) == [Absent EXCEPT !.tag = "Double", !.d = d]
StringV(bytes) == [Absent EXCEPT !.tag = "String", !.s = bytes]
BoolV(b) == [Absent EXCEPT !.tag = "Bool", !.b = b]
ObjectV(id) == [Absent EXCEPT !.tag = "Object", !.i = id]
ArrayV(id) == [Absent EXCEPT !.tag = "Array", !.i = id]
FunctionV(id) == [Absent EXCEPT !.tag = "Function", !.i = id]
CallbackV(id) == [Absent EXCEPT !.tag = "Callback", !.i = id]

\* String::String(const char*): the length is strlen of the argument
StringFromCStr(bytes) == StringV(CStr(bytes))
\* String::String(const char*, int): copies `length` bytes
StringFromBuffer(bytes) == StringV(bytes)

ScalarValues ==
    {IntV(i) : i \in IntSamples}
        \cup {DoubleV(d) : d \in DoubleSamples}
        \cup {StringFromBuffer(s) : s \in ByteStrings}
        \cup {BoolV(b) : b \in BOOLEAN}

(***************************************************************************)
(* Native engine values: a record with the kind and the fields d (the      *)
(* number, also of a boxed number), s (the code units of a string, also    *)
(* boxed), b (boolean, also boxed), id (the heap object of an Array,       *)
(* Function or Object) and throws: whether converting a boxed number or    *)
(* string to its primitive runs script that throws (an overridden valueOf  *)
(* or toString).                                                           *)
(***************************************************************************)
NNull == [kind |-> "Null", d |-> DInt(0), s |-> <<>>, b |-> FALSE, id |-> 0, throws |-> FALSE]
NUndefined == [NNull EXCEPT !.kind = "Undefined"]
NSymbol == [NNull EXCEPT !.kind = "Symbol"]
NNumber(d) == [NNull EXCEPT !.kind = "Number", !.d = d]
NBoolean(b) == [NNull EXCEPT !.kind = "Boolean", !.b = b]
NString(units) == [NNull EXCEPT !.kind = "String", !.s = units]
NNumberObject(d, throws) == [NNull EXCEPT !.kind = "NumberObject", !.d = d, !.throws = throws]
NBooleanObject(b) == [NNull EXCEPT !.kind = "BooleanObject", !.b = b]
NStringObject(units, throws) ==
    [NNull EXCEPT !.kind = "StringObject", !.s = units, !.throws = throws]
NArray(id) == [NNull EXCEPT !.kind = "Array", !.id = id]
NFunction(id) == [NNull EXCEPT !.kind = "Function", !.id = id]
NObject(id) == [NNull EXCEPT !.kind = "Object", !.id = id]

HeapIds == {1, 2}

Natives ==
    {NNumber(d) : d \in DoubleSamples}
        \cup {NBoolean(b) : b \in BOOLEAN}
        \cup {NString(u) : u \in UnitStrings}
        \cup {NNull, NUndefined, NSymbol}
        \cup {NNumberObject(d, t) : d \in DoubleSamples, t \in BOOLEAN}
        \cup {NBooleanObject(b) : b \in BOOLEAN}
        \cup {NStringObject(u, t) : u \in UnitStrings, t \in BOOLEAN}
        \cup {NArray(i) : i \in HeapIds}
        \cup {NFunction(i) : i \in HeapIds}
        \cup {NObject(i) : i \in HeapIds}

\* the engine's category predicates, as v8::Value defines them
IsInt32(n) == n.kind = "Number" /\ IsInt32Double(n.d)
IsNumber(n) == n.kind = "Number"
IsNumberObject(n) == n.kind = "NumberObject"
IsBoolean(n) == n.kind = "Boolean"
IsBooleanObject(n) == n.kind = "BooleanObject"
IsString(n) == n.kind = "String"
IsStringObject(n) == n.kind = "StringObject"
IsArray(n) == n.kind = "Array"
IsFunction(n) == n.kind = "Function"
IsObject(n) ==
    n.kind \in {"NumberObject", "BooleanObject", "StringObject", "Array", "Function", "Object"}
IsUndefined(n) == n.kind = "Undefined"
IsNull(n) == n.kind = "Null"

(***************************************************************************)
(* Outcomes of a body of code that may throw: "ok" with a value, a         *)
(* ScriptException ("script") or a std::runtime_error ("runtime").         *)
(***************************************************************************)
Ok(v) == [out |-> "ok", value |-> v]
ThrowScript == [out |-> "script", value |-> Absent]
ThrowRuntime == [out |-> "runtime", value |-> Absent]
\* Wrap has not been called
NotWrapped == [out |-> "none", value |-> Absent]

\* FromJust: Throw(scope) when the capture region has caught or the Maybe is
\* empty, else the value
FromJust(caught, v) == IF caught THEN ThrowScript ELSE Ok(v)

\* the engine's conversions used by Wrap: [caught, v]
Int32Value(n) == [caught |-> FALSE, v |-> n.d.n]
NumberValue(n) == [caught |-> n.throws, v |-> n.d]
\* ToBoolean of any object is true, also of a boxed false
BooleanValue(n) == [caught |-> FALSE, v |-> IF n.kind = "Boolean" THEN n.b ELSE TRUE]
ToStringValue(n) == [caught |-> n.throws, v |-> n.s]

(***************************************************************************)
(* Value::Wrap(scope, Local<Value>)                                        *)
(***************************************************************************)
\* (a variant that tests IsObject before the boxed primitives)
WrapObjectFirst(n) ==
    IF IsInt32(n) THEN FromJust(Int32Value(n).caught, IntV(Int32Value(n).v))
    ELSE IF IsArray(n) THEN Ok(ArrayV(n.id))
    ELSE IF IsFunction(n) THEN Ok(FunctionV(n.id))
    ELSE IF IsObject(n) THEN Ok(ObjectV(n.id))
    ELSE IF IsNumber(n) \/ IsNumberObject(n)
         THEN FromJust(NumberValue(n).caught, DoubleV(NumberValue(n).v))
    ELSE IF IsBoolean(n) \/ IsBooleanObject(n)
         THEN FromJust(BooleanValue(n).caught, BoolV(BooleanValue(n).v))
    ELSE IF IsString(n) \/ IsStringObject(n)
         THEN FromJust(ToStringValue(n).caught,
                       StringFromBuffer(Utf8Encode(ToStringValue(n).v)))
    ELSE IF IsUndefined(n) \/ IsNull(n) THEN Ok(Absent)
    ELSE ThrowRuntime

Wrap(n) ==
    IF IsInt32(n) THEN FromJust(Int32Value(n).caught, IntV(Int32Value(n).v))
    ELSE IF IsNumber(n) \/ IsNumberObject(n)
         THEN FromJust(NumberValue(n).caught, DoubleV(NumberValue(n).v))
    ELSE IF IsBoolean(n) \/ IsBooleanObject(n)
         THEN FromJust(BooleanValue(n).caught, BoolV(BooleanValue(n).v))
    ELSE IF IsString(n) \/ IsStringObject(n)
         THEN FromJust(ToStringValue(n).caught,
                       StringFromBuffer(Utf8Encode(ToStringValue(n).v)))
    ELSE IF IsArray(n) THEN Ok(ArrayV(n.id))
    ELSE IF IsFunction(n) THEN Ok(FunctionV(n.id))
    ELSE IF IsObject(n) THEN Ok(ObjectV(n.id))
    ELSE IF IsUndefined(n) \/ IsNull(n) THEN Ok(Absent)
    ELSE ThrowRuntime

\* Value::Wrap(scope, MaybeLocal<Value>): FromJust first, then Wrap
WrapMaybe(caught, n) == IF caught THEN ThrowScript ELSE Wrap(n)

(***************************************************************************)
(* Value::Unwrap for every variant but Callback (whose Unwrap has a side   *)
(* effect and is the action UnwrapCallback below).                         *)
(***************************************************************************)
\* ToV8String: NewFromUtf8 of the NUL-terminated buffer
ToV8String(bytes) == NString(Utf8Decode(CStr(bytes)))

\* (a variant that passes a Double through a 32-bit integer)
UnwrapDoubleAsInt(v) ==
    CASE v.tag = "Absent" -> NNull
      [] v.tag = "Int" -> NNumber(DInt(v.i))
      [] v.tag = "Double" -> NNumber(DInt(v.d.n))
      [] v.tag = "String" -> ToV8String(v.s)
      [] v.tag = "Bool" -> NBoolean(v.b)
      [] v.tag = "Object" -> NObject(v.i)
      [] v.tag = "Array" -> NArray(v.i)
      [] v.tag = "Function" -> NFunction(v.i)

Unwrap(v) ==
    CASE v.tag = "Absent" -> NNull
      [] v.tag = "Int" -> NNumber(DInt(v.i))
      [] v.tag = "Double" -> NNumber(v.d)
      [] v.tag = "String" -> ToV8String(v.s)
      [] v.tag = "Bool" -> NBoolean(v.b)
      [] v.tag = "Object" -> NObject(v.i)
      [] v.tag = "Array" -> NArray(v.i)
      [] v.tag = "Function" -> NFunction(v.i)

(***************************************************************************)
(* State.                                                                  *)
(***************************************************************************)
VARIABLES
    globalContext,  \* Context::_globalContext: 0 is nullptr, else the Context object
    contexts,       \* the embedder's Context objects, in order of construction
    platformInits,  \* how often the engine platform was initialised (Context::_platform)
    handlerRefs,    \* retains and releases the two handler objects have received
    props,          \* the properties of the global object of the Context in the slot
    objOwner,       \* the Context whose global object the embedder's Object wrapper
                    \* references; 0 when the embedder holds no wrapper
    crashed,        \* the process has died of undefined behaviour
    last,           \* what the last public operation did and returned
    wrapIn,         \* the native value handed to Value::Wrap
    wrapOut,        \* what Wrap did with it; NotWrapped before the call
    fns,            \* the native function objects made by unwrapping the Callback
    cbCount,        \* the Callback's retains minus its releases, as the bridge made them
    zeroDrops,      \* how often cbCount came down to zero
    events,         \* the unwraps ("U") and collections ("C") so far, in order
    pc,             \* "idle", or "inCallback" while the embedder's Callback::Call runs
    info,           \* the native arguments of the bridged invocation
    values,         \* wrappedArgs, the vector the UniqueValueVector refers to
    original,       \* wrappedArgs as it was when Callback::Call was entered
    taken,          \* per index: the callback has called Get on it
    released,       \* per index: how often the bridge deleted a Value taken from it
    lastGet,        \* the index and the result of the last UniqueValueVector::Get
    held,           \* the members of V8Scope objects constructed and not yet
                    \* destroyed, in the order of their construction
    frames,         \* the operations in progress on the thread, outermost first
    returned        \* the public operation that returned last, and `held` at
                    \* its entry and at its return

lifeVars == <<globalContext, contexts, platformInits, handlerRefs, props, objOwner, crashed, last>>
wrapVars == <<wrapIn, wrapOut>>
refVars == <<fns, cbCount, zeroDrops, events>>
callVars == <<pc, info, values, original, taken, released, lastGet>>
guardVars == <<held, frames, returned>>
otherVars == <<wrapVars, refVars, callVars, guardVars>>
vars == <<lifeVars, wrapVars, refVars, callVars, guardVars>>

CtxIds == 1 .. MaxCtx
\* a null const char* argument
NULLPTR == "nullptr"
Keys == {"x", "y"}
\* a handler argument: 0 is nullptr, 1 the embedder's handler object
HandlerArgs == {0, 1}

UnbornContext ==
    [state |-> "unborn", seh |-> 0, reh |-> 0, isolate |-> "none",
     conversionIsolate |-> "none", context |-> FALSE, instanceOf |-> FALSE]
\* the object of a constructor that returned at once: no field was initialised
RejectedContext == [UnbornContext EXCEPT !.state = "rejected"]

NoOp ==
    [op |-> "none", self |-> 0, nullArg |-> FALSE, src |-> "", arg |-> Absent, res |-> Absent,
     rtReports |-> 0, rtHandled |-> 0, seReports |-> 0, seHandled |-> 0,
     escaped |-> "none", guards |-> 0, compiled |-> FALSE, ran |-> FALSE,
     slotBefore |-> 0, hadRt |-> FALSE, hadSe |-> FALSE, accepted |-> FALSE]

(***************************************************************************)
(* The scripts the embedder evaluates, and what the engine does with each. *)
(***************************************************************************)
Sources ==
    {"1+1", "null", "({}).x.y", "(", "Symbol()", "x = 2", "x = Symbol()",
     "x = function () { return Symbol() }", "x = 2; ({}).x.y"}
\* v8::Script::Compile fails on a syntax error
Compiles(code) == code # "("
\* script->Run throws
RunThrows(code) == code \in {"({}).x.y", "x = 2; ({}).x.y"}
\* the completion value of the script (of its last completed statement when
\* the run throws)
RunValue(code) ==
    CASE code = "1+1" -> NNumber(DInt(2))
      [] code = "null" -> NNull
      [] code = "Symbol()" -> NSymbol
      [] code = "x = 2" -> NNumber(DInt(2))
      [] code = "x = Symbol()" -> NSymbol
      [] code = "x = function () { return Symbol() }" -> NFunction(1)
      [] code = "x = 2; ({}).x.y" -> NNumber(DInt(2))
      [] OTHER -> NUndefined
\* the script assigns its value to the global property x (before it throws,
\* when it does)
RunAssigns(code) ==
    code \in {"x = 2", "x = Symbol()", "x = function () { return Symbol() }",
              "x = 2; ({}).x.y"}
\* what calling the function object `id` returns
CallValue(id) == IF id = 1 THEN NSymbol ELSE NNumber(DInt(2))

FreshGlobal == [k \in Keys |-> NUndefined]

(***************************************************************************)
(* Fault routing.                                                          *)
(***************************************************************************)
\* Context::HandleRuntimeException called n times: the messages the
\* runtime-fault handler receives
\* (a variant that calls the handler without looking at the slot)
HandleRuntimeExceptionNoCheck(n) == n
HandleRuntimeException(n) ==
    IF globalContext # 0 /\ contexts[globalContext].reh # 0 THEN n ELSE 0

\* Context::HandleScriptException called n times (inside a guard, so the slot
\* is occupied): the exceptions the script-exception handler receives
HandleScriptException(n) ==
    IF globalContext # 0 /\ contexts[globalContext].seh # 0 THEN n ELSE 0

\* the record of an operation whose try block ended as `body` and whose catch
\* clauses are `catches`; dflt is what the catch clauses (or the end of the
\* function) return
Finish(op, self, src, body, catches, dflt, guards, compiled, ran) ==
    LET rt == IF body.out = "runtime" /\ "runtime" \in catches THEN 1 ELSE 0
        se == IF body.out = "script" /\ "script" \in catches THEN 1 ELSE 0
    IN  [op |-> op, self |-> self, nullArg |-> FALSE, src |-> src, arg |-> Absent,
         res |-> IF body.out = "ok" THEN body.value ELSE dflt,
         rtReports |-> rt, rtHandled |-> HandleRuntimeException(rt),
         seReports |-> se, seHandled |-> HandleScriptException(se),
         escaped |-> IF body.out \in {"ok"} \cup catches THEN "none" ELSE body.out,
         guards |-> guards, compiled |-> compiled, ran |-> ran,
         slotBefore |-> globalContext,
         hadRt |-> globalContext # 0 /\ contexts[globalContext].reh # 0,
         hadSe |-> globalContext # 0 /\ contexts[globalContext].seh # 0,
         accepted |-> FALSE]

\* (an early return that reports nothing)
NullArgumentSilent(op, self, dflt) ==
    [Finish(op, self, "", Ok(dflt), {}, dflt, 0, FALSE, FALSE) EXCEPT !.nullArg = TRUE]
\* the early return of an operation given a null required argument:
\* HandleRuntimeException(message); return dflt
NullArgument(op, self, dflt) ==
    [Finish(op, self, "", ThrowRuntime, {"runtime"}, dflt, 0, FALSE, FALSE)
        EXCEPT !.nullArg = TRUE]

\* V8Scope() dereferences _globalContext: undefined behaviour when it is null
Crash(op, self) ==
    /\ crashed' = TRUE
    /\ last' = [Finish(op, self, "", Ok(Absent), {}, Absent, 0, FALSE, FALSE)
                    EXCEPT !.escaped = "crash"]

(***************************************************************************)
(* Context::Context                                                        *)
(***************************************************************************)
\* (a constructor without the re-entrancy check)
NeverReentrant == FALSE
\* the constructor's first test: a Context already occupies the slot
Reentrant == globalContext # 0

NextContext == CHOOSE c \in CtxIds : contexts[c].state = "unborn" /\
                    \A d \in CtxIds : d < c => contexts[d].state # "unborn"

\* Context::Evaluate between its try and its catch clauses
EvaluateBody(code) ==
    IF ~Compiles(code) THEN ThrowScript ELSE WrapMaybe(RunThrows(code), RunValue(code))

\* if (handler != nullptr) handler->Retain(): the retains made
RetainHandler(handler) == IF handler # 0 THEN 1 ELSE 0

Construct(self, scriptExceptionHandler, runtimeExceptionHandler) ==
    /\ ~crashed
    /\ \E c \in CtxIds : contexts[c].state = "unborn"
    /\ self = NextContext
    /\ IF Reentrant
       THEN /\ contexts' = [contexts EXCEPT ![self] = RejectedContext]
            /\ last' = Finish("Construct", self, "", ThrowRuntime, {"runtime"},
                              Absent, 0, FALSE, FALSE)
            /\ UNCHANGED <<globalContext, platformInits, handlerRefs, props>>
       ELSE /\ globalContext' = self
            /\ contexts' = [contexts EXCEPT ![self] =
                    [state |-> "live", seh |-> scriptExceptionHandler,
                     reh |-> runtimeExceptionHandler, isolate |-> "alive",
                     conversionIsolate |-> "alive", context |-> TRUE,
                     instanceOf |-> TRUE]]
            /\ handlerRefs' = [handlerRefs EXCEPT
                    !.seRetains = @ + RetainHandler(scriptExceptionHandler),
                    !.rtRetains = @ + RetainHandler(runtimeExceptionHandler)]
            /\ platformInits' = IF platformInits = 0 THEN 1 ELSE platformInits
            /\ props' = FreshGlobal
            /\ last' = [Finish("Construct", self, "", Ok(Absent), {"script", "runtime"},
                               Absent, 1, TRUE, TRUE)
                            EXCEPT !.accepted = TRUE]
    /\ UNCHANGED <<objOwner, crashed, otherVars>>

(***************************************************************************)
(* Context::~Context                                                       *)
(***************************************************************************)
\* (a destructor that leaves the slot as it is)
KeepSlot(self) == globalContext
\* the destructor's last statement: _globalContext = nullptr
ClearSlot(self) == 0

\* (a destructor that forgets the handler)
ReleaseHandlerNever(handler) == 0
\* if (handler != nullptr) handler->Release(): the releases made
ReleaseHandler(handler) == IF handler # 0 THEN 1 ELSE 0

\* the destructor of a successfully constructed Context
Teardown(self) ==
    /\ contexts' = [contexts EXCEPT ![self] =
            [@ EXCEPT !.state = "destroyed", !.seh = 0, !.reh = 0,
                      !.isolate = "disposed", !.conversionIsolate = "disposed",
                      !.context = FALSE, !.instanceOf = FALSE]]
    /\ handlerRefs' = [handlerRefs EXCEPT
            !.rtReleases = @ + ReleaseHandler(contexts[self].reh),
            !.seReleases = @ + ReleaseHandler(contexts[self].seh)]
    /\ globalContext' = ClearSlot(self)
    /\ last' = [Finish("Destruct", self, "", Ok(Absent), {}, Absent, 0, FALSE, FALSE)
                    EXCEPT !.accepted = TRUE]
    /\ UNCHANGED crashed

\* the destructor of a Context whose constructor returned at once: it locks,
\* releases and disposes through pointers that were never initialised.  The
\* build either dies there or gets through to the last statement.
TeardownRejected(self) ==
    \/ Crash("Destruct", self) /\ UNCHANGED <<globalContext, contexts, handlerRefs>>
    \/ /\ contexts' = [contexts EXCEPT ![self].state = "destroyed"]
       /\ globalContext' = ClearSlot(self)
       /\ last' = Finish("Destruct", self, "", Ok(Absent), {}, Absent, 0, FALSE, FALSE)
       /\ UNCHANGED <<handlerRefs, crashed>>

Destruct(self) ==
    /\ ~crashed
    /\ contexts[self].state \in {"live", "rejected"}
    /\ IF contexts[self].state = "live" THEN Teardown(self) ELSE TeardownRejected(self)
    /\ UNCHANGED <<platformInits, props, objOwner, otherVars>>

(***************************************************************************)
(* Context::Evaluate, Context::GlobalObject, Context::SendDebugCommand      *)
(***************************************************************************)
\* a Context object the embedder can call a method of
Callable(self) == contexts[self].state \in {"live", "rejected"}

\* (an Evaluate that catches std::runtime_error only)
EvaluateCatchesRuntimeOnly == {"runtime"}
\* the catch clauses of Evaluate
EvaluateCatches == {"script", "runtime"}

\* what Evaluate returns and reports in the current state, for a live slot
EvaluateResult(self, code) ==
    Finish("Evaluate", self, code, EvaluateBody(code), EvaluateCatches, Absent,
           1, TRUE, Compiles(code))

Evaluate(self, fileName, code) ==
    /\ ~crashed
    /\ Callable(self)
    /\ IF fileName = NULLPTR \/ code = NULLPTR
       THEN /\ last' = NullArgument("Evaluate", self, Absent)
            /\ UNCHANGED <<props, crashed>>
       ELSE IF globalContext = 0
       THEN Crash("Evaluate", self) /\ UNCHANGED props
       ELSE /\ last' = EvaluateResult(self, code)
            /\ props' = IF Compiles(code) /\ RunAssigns(code)
                        THEN [props EXCEPT !["x"] = RunValue(code)]
                        ELSE props
            /\ UNCHANGED crashed
    /\ UNCHANGED <<globalContext, contexts, platformInits, handlerRefs, objOwner, otherVars>>

GlobalObject(self) ==
    /\ ~crashed
    /\ Callable(self)
    /\ IF globalContext = 0
       THEN Crash("GlobalObject", self) /\ UNCHANGED objOwner
       ELSE /\ objOwner' = globalContext
            /\ last' = Finish("GlobalObject", self, "", Ok(ObjectV(globalContext)), {},
                              Absent, 1, FALSE, FALSE)
            /\ UNCHANGED crashed
    /\ UNCHANGED <<globalContext, contexts, platformInits, handlerRefs, props, otherVars>>

\* static: needs no Context object
SendDebugCommand(command) ==
    /\ ~crashed
    /\ last' = IF command = NULLPTR
               THEN NullArgument("SendDebugCommand", 0, Absent)
               ELSE Finish("SendDebugCommand", 0, "", Ok(Absent), {}, Absent, 0, FALSE, FALSE)
    /\ UNCHANGED <<globalContext, contexts, platformInits, handlerRefs, props, objOwner,
                   crashed, otherVars>>

(***************************************************************************)
(* Object::Get, Object::Set, Object::CallMethod, Object::ContainsKey on    *)
(* the embedder's wrapper of the global object.                            *)
(***************************************************************************)
\* the wrapper's persistent reference belongs to the Context in the slot;
\* opening a guard without one, or reading a reference of a disposed
\* isolate, is undefined behaviour
WrapperUsable == globalContext # 0 /\ objOwner = globalContext

ObjectOp(op, key, arg, dflt, body, catches, newProps) ==
    /\ ~crashed
    /\ objOwner # 0
    /\ IF key = NULLPTR
       THEN /\ last' = NullArgument(op, 0, dflt)
            /\ UNCHANGED <<props, crashed>>
       ELSE IF ~WrapperUsable
       THEN Crash(op, 0) /\ UNCHANGED props
       ELSE /\ last' = [Finish(op, 0, key, body, catches, dflt, 1, FALSE, FALSE)
                            EXCEPT !.arg = arg]
            /\ props' = newProps
            /\ UNCHANGED crashed
    /\ UNCHANGED <<globalContext, contexts, platformInits, handlerRefs, objOwner, wrapVars, guardVars,
                   callVars>>

\* (a Get with the catch clause of Object::Set only)
ObjectGetCatchesScriptOnly == {"script"}
\* the catch clauses of Object::Get
ObjectGetCatches == {"script", "runtime"}

ObjectGet(key) ==
    /\ ObjectOp("Get", key, Absent, Absent,
                IF key \in Keys THEN WrapMaybe(FALSE, props[key]) ELSE Ok(Absent),
                ObjectGetCatches, props)
    /\ UNCHANGED refVars

ObjectSet(key, value) ==
    /\ value.tag # "Callback"
    /\ ObjectOp("Set", key, value, Absent, Ok(Absent), {"script"},
                IF key \in Keys THEN [props EXCEPT ![key] = Unwrap(value)] ELSE props)
    /\ UNCHANGED refVars

\* with no arguments: the property must be a function, else Throw(scope)
ObjectCallMethod(name) ==
    /\ ObjectOp("CallMethod", name, Absent, Absent,
                IF name \in Keys /\ IsFunction(props[name])
                THEN WrapMaybe(FALSE, CallValue(props[name].id))
                ELSE ThrowScript,
                {"script", "runtime"}, props)
    /\ UNCHANGED refVars

\* no modelled operation stores undefined, so undefined is a missing property
ObjectContainsKey(key) ==
    /\ ObjectOp("ContainsKey", key, Absent, BoolV(FALSE),
                Ok(BoolV(key \in Keys /\ props[key] # NUndefined)),
                {"script"}, props)
    /\ UNCHANGED refVars

(***************************************************************************)
(* The Callback bridge: Value::Unwrap of a Callback, and the weak          *)
(* finalizer it registers.                                                 *)
(***************************************************************************)
\* the embedder's one Callback object
TheCallback == CallbackV(1)
\* the native function object number f
NBridged(f) == NFunction(0 - f)

\* (a bridge that retains the Callback only when it holds no retain yet)
RetainIfUnretained(count) == IF count = 0 THEN 1 ELSE count
\* callback->Retain()
Retain(count) == count + 1
\* the weak callback: cb->Release()
Release(count) == count - 1

CameToZero(before, after) == IF before # 0 /\ after = 0 THEN 1 ELSE 0

NextFn == CHOOSE f \in 1 .. MaxFns : fns[f] = "none" /\
                \A g \in 1 .. MaxFns : g < f => fns[g] # "none"

\* Object::Set(key, callback): Unwrap retains the Callback, makes the External
\* with its weak finalizer, and the function object that becomes the property
ObjectSetCallback(key) ==
    /\ \E f \in 1 .. MaxFns : fns[f] = "none"
    /\ ObjectOp("Set", key, TheCallback, Absent, Ok(Absent), {"script"},
                IF key \in Keys THEN [props EXCEPT ![key] = NBridged(NextFn)] ELSE props)
    /\ IF key # NULLPTR /\ WrapperUsable
       THEN /\ fns' = [fns EXCEPT ![NextFn] = "live"]
            /\ cbCount' = Retain(cbCount)
            /\ zeroDrops' = zeroDrops + CameToZero(cbCount, cbCount')
            /\ events' = Append(events, "U")
       ELSE UNCHANGED refVars

\* the engine's collector finds function object f unreachable and runs the
\* finalizer of its External
Collect(f) ==
    /\ ~crashed
    /\ globalContext # 0
    /\ pc = "idle"
    /\ fns[f] = "live"
    /\ \A k \in Keys : props[k] # NBridged(f)
    /\ fns' = [fns EXCEPT ![f] = "collected"]
    /\ cbCount' = Release(cbCount)
    /\ zeroDrops' = zeroDrops + CameToZero(cbCount, cbCount')
    /\ events' = Append(events, "C")
    /\ UNCHANGED <<lifeVars, wrapVars, callVars, guardVars>>

(***************************************************************************)
(* The bridged invocation: the function callback Unwrap installs, the      *)
(* UniqueValueVector it hands to Callback::Call, and the release of what   *)
(* the callback left.                                                      *)
(***************************************************************************)
\* the loop that wraps info[0 .. Length-1]: the Values wrapped before the
\* first fault, and how the loop ended
RECURSIVE WrapArgs(_)
WrapArgs(natives) ==
    IF natives = <<>> THEN [values |-> <<>>, out |-> "ok"]
    ELSE LET w == Wrap(Head(natives))
         IN  IF w.out # "ok" THEN [values |-> <<>>, out |-> w.out]
             ELSE LET rest == WrapArgs(Tail(natives))
                  IN  [values |-> <<w.value>> \o rest.values, out |-> rest.out]

\* the catch clause around the loop
CallbackCatches == {"runtime"}

\* (a Get that returns the element and leaves it in place)
UniqueValueVectorPeek(vs, index) == [result |-> vs[index], values |-> vs]
\* UniqueValueVector::Get: swap the element with nullptr and return it
UniqueValueVectorGet(vs, index) ==
    [result |-> vs[index], values |-> [vs EXCEPT ![index] = Absent]]

\* (a release loop that stops one short of the end)
ReleaseAllButLast(vs) ==
    [i \in 1 .. Len(vs) |-> IF i < Len(vs) /\ UniqueValueVectorGet(vs, i).result # Absent
                            THEN 1 ELSE 0]
\* for (i = 0; i < len; ++i) delete args.Get(i): how often a Value of each
\* index is deleted (delete of nullptr deletes nothing)
ReleaseLeftovers(vs) ==
    [i \in 1 .. Len(vs) |-> IF UniqueValueVectorGet(vs, i).result # Absent THEN 1 ELSE 0]

NoGet == [index |-> 0, res |-> Absent]

\* the engine calls function object f with the native arguments `natives`
InvokeCallback(f, natives) ==
    /\ ~crashed
    /\ globalContext # 0
    /\ pc = "idle"
    /\ fns[f] = "live"
    /\ LET w == WrapArgs(natives)
           body == IF w.out = "ok" THEN Ok(Absent)
                   ELSE IF w.out = "runtime" THEN ThrowRuntime ELSE ThrowScript
       IN  /\ last' = Finish("Callback", 0, "", body, CallbackCatches, Absent, 1, FALSE, FALSE)
           /\ pc' = IF w.out \in {"ok"} \cup CallbackCatches THEN "inCallback" ELSE "idle"
           /\ info' = natives
           /\ values' = w.values
           /\ original' = w.values
           /\ taken' = [i \in 1 .. Len(w.values) |-> FALSE]
           /\ released' = [i \in 1 .. Len(w.values) |-> 0]
           /\ lastGet' = NoGet
    /\ UNCHANGED <<globalContext, contexts, platformInits, handlerRefs, props, objOwner,
                   crashed, wrapVars, refVars, guardVars>>

\* the embedder's Callback::Call takes argument `index`
CallbackGet(index) ==
    /\ pc = "inCallback"
    /\ index \in 1 .. Len(values)
    /\ LET got == UniqueValueVectorGet(values, index)
       IN  /\ values' = got.values
           /\ lastGet' = [index |-> index, res |-> got.result]
    /\ taken' = [taken EXCEPT ![index] = TRUE]
    /\ UNCHANGED <<lifeVars, wrapVars, refVars, guardVars, pc, info, original, released>>

\* Callback::Call returns `result`: the bridge deletes what is left in the
\* vector and hands Unwrap(result) to the engine
CallbackReturn(result) ==
    /\ pc = "inCallback"
    /\ released' = ReleaseLeftovers(values)
    /\ values' = [i \in 1 .. Len(values) |-> Absent]
    /\ pc' = "idle"
    /\ lastGet' = NoGet
    /\ last' = [last EXCEPT !.res = result]
    /\ UNCHANGED <<globalContext, contexts, platformInits, handlerRefs, props, objOwner,
                   crashed, wrapVars, refVars, guardVars, info, original, taken>>

\* no Context object exists yet
LifeIdle ==
    /\ globalContext = 0
    /\ contexts = [c \in CtxIds |-> UnbornContext]
    /\ platformInits = 0
    /\ handlerRefs = [seRetains |-> 0, seReleases |-> 0, rtRetains |-> 0, rtReleases |-> 0]
    /\ props = FreshGlobal
    /\ objOwner = 0
    /\ crashed = FALSE
    /\ last = NoOp

\* a Context has been constructed with both handlers, and the embedder holds
\* the wrapper GlobalObject() returned
LifeReady ==
    /\ globalContext = 1
    /\ contexts = [c \in CtxIds |->
            IF c = 1
            THEN [state |-> "live", seh |-> 1, reh |-> 1, isolate |-> "alive",
                  conversionIsolate |-> "alive", context |-> TRUE, instanceOf |-> TRUE]
            ELSE UnbornContext]
    /\ platformInits = 1
    /\ handlerRefs = [seRetains |-> 1, seReleases |-> 0, rtRetains |-> 1, rtReleases |-> 0]
    /\ props = FreshGlobal
    /\ objOwner = 1
    /\ crashed = FALSE
    /\ last = NoOp

WrapIdle ==
    /\ wrapIn = NNull
    /\ wrapOut = NotWrapped

\* the Callback has not been unwrapped, and no bridged invocation is running
BridgeIdle ==
    /\ fns = [f \in 1 .. MaxFns |-> "none"]
    /\ cbCount = 0
    /\ zeroDrops = 0
    /\ events = <<>>
    /\ pc = "idle"
    /\ info = <<>>
    /\ values = <<>>
    /\ original = <<>>
    /\ taken = <<>>
    /\ released = <<>>
    /\ lastGet = [index |-> 0, res |-> Absent]

NoReturn == [op |-> "none", exit |-> "none", before |-> <<>>, after |-> <<>>]

\* no operation is in progress and no V8Scope exists
GuardIdle ==
    /\ held = <<>>
    /\ frames = <<>>
    /\ returned = NoReturn

(***************************************************************************)
(* Wrap as a function of its input: one native value, wrapped once.        *)
(***************************************************************************)
WrapNative ==
    /\ wrapOut = NotWrapped
    /\ wrapOut' = Wrap(wrapIn)
    /\ UNCHANGED <<wrapIn, lifeVars, refVars, callVars, guardVars>>

InitWrap ==
    /\ wrapIn \in Natives
    /\ wrapOut = NotWrapped
    /\ LifeIdle
    /\ BridgeIdle
    /\ GuardIdle

NextWrap == WrapNative

SpecWrap == InitWrap /\ [][NextWrap]_vars

(***************************************************************************)
(* The Context lifecycle and the routing of faults.                        *)
(***************************************************************************)
\* the values the embedder stores through Object::Set in this specification
FewValues == {Absent, IntV(2)}

Init ==
    /\ LifeIdle
    /\ WrapIdle
    /\ BridgeIdle
    /\ GuardIdle

Next ==
    \/ \E c \in CtxIds, seh \in HandlerArgs, reh \in HandlerArgs : Construct(c, seh, reh)
    \/ \E c \in CtxIds : Destruct(c)
    \/ \E c \in CtxIds, f \in {NULLPTR, "t"}, code \in Sources \cup {NULLPTR} :
            Evaluate(c, f, code)
    \/ \E c \in CtxIds : GlobalObject(c)
    \/ \E cmd \in {NULLPTR, "continue"} : SendDebugCommand(cmd)
    \/ \E k \in {NULLPTR, "x"} : ObjectGet(k)
    \/ \E k \in {NULLPTR, "x"}, v \in FewValues : ObjectSet(k, v)
    \/ \E k \in {NULLPTR, "x"} : ObjectCallMethod(k)
    \/ \E k \in {NULLPTR, "x"} : ObjectContainsKey(k)

Spec == Init /\ [][Next]_vars

(***************************************************************************)
(* C1: a Construct while a Context occupies the slot reports one runtime   *)
(* fault through HandleRuntimeException (which the live Context's handler  *)
(* receives when one is registered), throws nothing, and leaves the slot,  *)
(* the live Context's isolates, execution context and handlers, the        *)
(* handler counts and the global object as they were, so that Evaluate on  *)
(* the live Context gives what it gave before.                             *)
(***************************************************************************)
ConstructStep == \E c \in CtxIds : contexts[c].state = "unborn" /\ contexts'[c].state # "unborn"

C1_SecondConstructRejected ==
    [][(ConstructStep /\ globalContext # 0) =>
        /\ last'.op = "Construct" /\ ~last'.accepted
        /\ last'.rtReports = 1
        /\ last'.rtHandled = (IF contexts[globalContext].reh # 0 THEN 1 ELSE 0)
        /\ last'.seHandled = 0
        /\ last'.escaped = "none"
        /\ ~crashed'
        /\ globalContext' = globalContext
        /\ contexts'[globalContext] = contexts[globalContext]
        /\ contexts[globalContext].state = "live"
        /\ UNCHANGED <<handlerRefs, platformInits, props, objOwner>>
        /\ \A code \in Sources :
                EvaluateResult(globalContext, code)' = EvaluateResult(globalContext, code)
      ]_vars

C1_Witness ==
    /\ last.op = "Construct"
    /\ ~last.accepted
    /\ last.slotBefore # 0
    /\ globalContext = last.slotBefore
    /\ contexts[last.self].state = "rejected"
    /\ last.rtHandled = 1

(***************************************************************************)
(* C2: the slot is empty or designates one successfully constructed,       *)
(* undestroyed Context; the destructor of such a Context empties the slot  *)
(* and disposes both of its isolates; a Construct that finds the slot      *)
(* empty succeeds, becomes the Context in the slot and reports no fault,   *)
(* in every lifetime; and the platform is initialised once, by the first   *)
(* successful Construct.                                                   *)
(***************************************************************************)
C2_SingletonLifetimes ==
    /\ globalContext # 0 => contexts[globalContext].state = "live"
    /\ (last.op = "Destruct" /\ last.accepted) =>
            /\ globalContext = 0
            /\ contexts[last.self].state = "destroyed"
            /\ contexts[last.self].isolate = "disposed"
            /\ contexts[last.self].conversionIsolate = "disposed"
    /\ (last.op = "Construct" /\ last.slotBefore = 0) =>
            /\ last.accepted
            /\ globalContext = last.self
            /\ contexts[last.self].state = "live"
            /\ contexts[last.self].isolate = "alive"
            /\ contexts[last.self].conversionIsolate = "alive"
            /\ last.rtReports = 0
    /\ platformInits = (IF \E c \in CtxIds : contexts[c].isolate # "none" THEN 1 ELSE 0)

C2_Witness ==
    /\ last.op = "Construct"
    /\ last.accepted
    /\ globalContext = last.self
    /\ \E c \in CtxIds : c # last.self /\ contexts[c].isolate = "disposed"
    /\ platformInits = 1

(***************************************************************************)
(* C5: Evaluate with both arguments present.  When the source does not     *)
(* compile or its run throws, Evaluate returns absent, HandleScriptExcep-  *)
(* tion is called once (the script-exception handler, when registered,     *)
(* receives one ScriptException), the runtime-fault handler receives       *)
(* nothing and no exception leaves Evaluate.  When the source runs and its *)
(* value wraps, no handler is called and the result is the wrapped value:  *)
(* Int 2 for "1+1", absent for "null".                                     *)
(***************************************************************************)
Evaluated == last.op = "Evaluate" /\ ~last.nullArg /\ last.escaped # "crash"
Quiet == last.rtReports = 0 /\ last.rtHandled = 0 /\ last.seReports = 0 /\ last.seHandled = 0

C5_EvaluateScriptFault ==
    Evaluated =>
        /\ (~Compiles(last.src) \/ RunThrows(last.src)) =>
                /\ last.res = Absent
                /\ last.seReports = 1
                /\ last.seHandled = (IF last.hadSe THEN 1 ELSE 0)
                /\ last.rtReports = 0 /\ last.rtHandled = 0
                /\ last.escaped = "none"
        /\ (Compiles(last.src) /\ ~RunThrows(last.src) /\ Wrap(RunValue(last.src)).out = "ok") =>
                /\ Quiet
                /\ last.res = Wrap(RunValue(last.src)).value
                /\ last.escaped = "none"
        /\ last.src = "1+1" => Quiet /\ last.res = IntV(2)
        /\ last.src = "null" => Quiet /\ last.res = Absent

C5_Witness ==
    /\ Evaluated
    /\ last.src = "({}).x.y"
    /\ last.res = Absent
    /\ last.seHandled = 1

(***************************************************************************)
(* C6: Evaluate with a null file name or a null source calls               *)
(* HandleRuntimeException once (the runtime-fault handler of the Context   *)
(* in the slot, when registered, receives one message), returns absent,    *)
(* opens no guard, compiles and runs nothing, does not call the            *)
(* script-exception handler, and changes nothing else.                     *)
(***************************************************************************)
C6_EvaluateNullArgument ==
    [][(last'.op = "Evaluate" /\ last'.nullArg) =>
        /\ last'.rtReports = 1
        /\ last'.rtHandled = (IF globalContext # 0 /\ contexts[globalContext].reh # 0
                              THEN 1 ELSE 0)
        /\ last'.res = Absent
        /\ last'.guards = 0
        /\ ~last'.compiled /\ ~last'.ran
        /\ last'.seReports = 0 /\ last'.seHandled = 0
        /\ last'.escaped = "none"
        /\ UNCHANGED <<globalContext, contexts, platformInits, handlerRefs, props,
                       objOwner, crashed>>
      ]_vars

C6_Witness ==
    /\ last.op = "Evaluate"
    /\ last.nullArg
    /\ last.rtHandled = 1
    /\ last.res = Absent
    /\ last.guards = 0

(***************************************************************************)
(* C10 as stated: every runtime fault, use after teardown included, is     *)
(* delivered to the runtime-fault handler.                                 *)
(***************************************************************************)
AfterTeardown ==
    /\ last.op \notin {"Construct", "Destruct"}
    /\ last.slotBefore = 0
    /\ \E c \in CtxIds : contexts[c].isolate = "disposed"

UnsupportedCategory ==
    \/ Evaluated /\ Compiles(last.src) /\ ~RunThrows(last.src) /\ RunValue(last.src) = NSymbol
    \/ last.op = "Get" /\ ~last.nullArg /\ last.escaped # "crash" /\ props[last.src] = NSymbol
    \/ /\ last.op = "CallMethod" /\ ~last.nullArg /\ last.escaped # "crash"
       /\ IsFunction(props[last.src]) /\ CallValue(props[last.src].id) = NSymbol

RuntimeFault ==
    \/ last.nullArg
    \/ last.op = "Construct" /\ last.slotBefore # 0
    \/ UnsupportedCategory

InitObj ==
    /\ LifeReady
    /\ WrapIdle
    /\ BridgeIdle
    /\ GuardIdle

NextObj ==
    \/ \E k \in Keys, v \in ScalarValues : ObjectSet(k, v)
    \/ \E k \in Keys : ObjectGet(k)

SpecObj == InitObj /\ [][NextObj]_vars

\* Object::Get(k) right after Object::Set(k, v) on the same Object
SetThenGet ==
    /\ last.op = "Set" /\ ~last.nullArg
    /\ last'.op = "Get" /\ ~last'.nullArg
    /\ last'.src = last.src

(***************************************************************************)
(* C7 as stated: Set(k, v) then Get(k) returns v, tag and payload, for     *)
(* every scalar Value v.                                                   *)
(***************************************************************************)
C7_AsStated == [][SetThenGet => last'.res = last.arg]_vars

(***************************************************************************)
(* C7, amended: Set(k, v) then Get(k) returns v, tag and payload, when v   *)
(* is an Int, a Bool, a Double that is not an integer of 32-bit range, or  *)
(* a String whose buffer is well-formed UTF-8 without a NUL byte.  A       *)
(* Double whose payload is an integer of 32-bit range comes back as the    *)
(* Int of that payload; any other String comes back as a different         *)
(* String.  Neither call reports a fault.                                  *)
(***************************************************************************)
RECURSIVE WellFormedUtf8(_)
WellFormedUtf8(bytes) ==
    IF bytes = <<>> THEN TRUE
    ELSE IF Head(bytes) > 0 /\ Head(bytes) < 128 THEN WellFormedUtf8(Tail(bytes))
    ELSE IF Len(bytes) >= 3 /\ SubSeq(bytes, 1, 3) = <<239, 191, 189>>
         THEN WellFormedUtf8(SubSeq(bytes, 4, Len(bytes)))
    ELSE FALSE

RoundTripsExactly(v) ==
    \/ v.tag \in {"Int", "Bool"}
    \/ v.tag = "Double" /\ ~IsInt32Double(v.d)
    \/ v.tag = "String" /\ WellFormedUtf8(v.s)

C7_SetGetRoundTrip ==
    [][SetThenGet =>
        /\ RoundTripsExactly(last.arg) => last'.res = last.arg
        /\ (last.arg.tag = "Double" /\ IsInt32Double(last.arg.d)) =>
                last'.res = IntV(last.arg.d.n)
        /\ (last.arg.tag = "String" /\ ~WellFormedUtf8(last.arg.s)) =>
                last'.res.tag = "String" /\ last'.res # last.arg
        /\ last.rtReports = 0 /\ last.seReports = 0
        /\ last'.rtReports = 0 /\ last'.seReports = 0
        /\ last'.escaped = "none"
      ]_vars

C7_Witness ==
    /\ last.op = "Get"
    /\ last.res = DoubleV(DFrac(1))
    /\ props[last.src] = NNumber(DFrac(1))
    /\ last.rtReports = 0

(***************************************************************************)
(* The Callback's retain count under unwraps and collections.              *)
(***************************************************************************)
InitRefs ==
    /\ LifeReady
    /\ WrapIdle
    /\ BridgeIdle
    /\ GuardIdle

NextRefs ==
    \/ \E k \in Keys : ObjectSetCallback(k)
    \/ \E k \in Keys : ObjectSet(k, Absent)
    \/ \E k \in Keys : ObjectGet(k)
    \/ \E f \in 1 .. MaxFns : Collect(f)

SpecRefs == InitRefs /\ [][NextRefs]_vars

(***************************************************************************)
(* C3: every unwrap of the Callback adds one to its retain count and every *)
(* collection of a function object takes one off, so the count is the      *)
(* number of uncollected function objects and never negative.  When the    *)
(* Callback has been unwrapped into two function objects that were alive   *)
(* together, the count is zero only after both are collected, and it has   *)
(* come down to zero once then and not before, whichever was collected     *)
(* first.                                                                  *)
(***************************************************************************)
Occurrences(e) == Cardinality({i \in 1 .. Len(events) : events[i] = e})
TwoTogether ==
    /\ Occurrences("U") = 2
    /\ events[1] = "U"
    /\ events[2] = "U"

C3_CallbackRetainCount ==
    /\ cbCount >= 0
    /\ cbCount = Cardinality({f \in 1 .. MaxFns : fns[f] = "live"})
    /\ cbCount = Occurrences("U") - Occurrences("C")
    /\ TwoTogether =>
            /\ cbCount = 0 <=> Occurrences("C") = 2
            /\ zeroDrops = (IF Occurrences("C") = 2 THEN 1 ELSE 0)

C3_Witness ==
    /\ TwoTogether
    /\ fns[1] = "collected"
    /\ fns[2] = "collected"
    /\ cbCount = 0
    /\ zeroDrops = 1

(***************************************************************************)
(* Bridged invocations of the Callback once Object::Set has made it the    *)
(* property x of the global object.                                        *)
(***************************************************************************)
\* the native arguments a script passes: a number, null, a symbol, and a
\* boxed number whose valueOf throws
ArgNatives == {NNumber(DInt(2)), NNull, NSymbol, NNumberObject(DInt(2), TRUE)}

InitCall ==
    /\ LifeReady
    /\ WrapIdle
    /\ BridgeIdle
    /\ GuardIdle

NextCall ==
    \/ \E k \in {"x"} : ObjectSetCallback(k)
    \/ \E f \in 1 .. MaxFns, natives \in SeqsUpTo(ArgNatives, MaxArgs) : InvokeCallback(f, natives)
    \/ \E i \in 1 .. MaxArgs : CallbackGet(i)
    \/ \E result \in FewValues : CallbackReturn(result)

SpecCall == InitCall /\ [][NextCall]_vars

(***************************************************************************)
(* C4: when Callback::Call has returned, every wrapped argument the        *)
(* callback did not take has been released by the bridge once, no argument *)
(* the callback took has been released by the bridge, and the vector holds *)
(* nothing any more; while the callback runs the bridge releases nothing.  *)
(***************************************************************************)
Returned == pc = "idle" /\ last.op = "Callback" /\ last.escaped = "none"

C4_ArgumentOwnership ==
    /\ Len(released) = Len(original)
    /\ Len(taken) = Len(original)
    /\ pc = "inCallback" => \A i \in 1 .. Len(original) : released[i] = 0
    /\ Returned =>
            \A i \in 1 .. Len(original) :
                /\ values[i] = Absent
                /\ taken[i] => released[i] = 0
                /\ (~taken[i] /\ original[i] # Absent) => released[i] = 1
                /\ original[i] = Absent => released[i] = 0

C4_Witness ==
    /\ Returned
    /\ Len(original) >= 2
    /\ original[1] # Absent /\ taken[1] /\ released[1] = 0
    /\ original[Len(original)] # Absent /\ ~taken[Len(original)]
    /\ released[Len(original)] = 1

(***************************************************************************)
(* C9: a Get of a valid index returns the element that was wrapped at that *)
(* index when it is the first Get of the index and absent when it is a     *)
(* later one, leaves every other index as it was and leaves the length as  *)
(* it was.                                                                 *)
(***************************************************************************)
\* a step of UniqueValueVector::Get
GetStep ==
    /\ pc = "inCallback"
    /\ pc' = "inCallback"
    /\ <<values, taken, lastGet>>' # <<values, taken, lastGet>>

C9_TakeOnce ==
    [][GetStep =>
        LET i == lastGet'.index
        IN  /\ i \in 1 .. Len(values)
            /\ lastGet'.res = (IF taken[i] THEN Absent ELSE original[i])
            /\ Len(values') = Len(values)
            /\ \A j \in 1 .. Len(values) : j # i => values'[j] = values[j]
            /\ values'[i] = Absent
      ]_vars

C9_Witness ==
    /\ pc = "inCallback"
    /\ lastGet.index # 0
    /\ original[lastGet.index] # Absent
    /\ lastGet.res = Absent
    /\ \E j \in 1 .. Len(values) : j # lastGet.index /\ values[j] # Absent

(***************************************************************************)
(* C8: Wrap's outcome is decided by the native value's categories in the   *)
(* reference precedence: int32 -> Int, else number or boxed number ->      *)
(* Double, else boolean or boxed boolean -> Bool, else string or boxed     *)
(* string -> String, else array -> Array, else function -> Function, else  *)
(* object -> Object, else null or undefined -> absent, else a runtime      *)
(* fault.  A script fault comes only from a boxed number or string whose   *)
(* conversion to the primitive throws, and then the precedence had chosen  *)
(* Double or String.                                                       *)
(***************************************************************************)
Categories(n) ==
    {c \in {"int32", "number", "numberObject", "boolean", "booleanObject", "string",
            "stringObject", "array", "function", "object", "undefined", "null"} :
        CASE c = "int32" -> IsInt32(n)
          [] c = "number" -> IsNumber(n)
          [] c = "numberObject" -> IsNumberObject(n)
          [] c = "boolean" -> IsBoolean(n)
          [] c = "booleanObject" -> IsBooleanObject(n)
          [] c = "string" -> IsString(n)
          [] c = "stringObject" -> IsStringObject(n)
          [] c = "array" -> IsArray(n)
          [] c = "function" -> IsFunction(n)
          [] c = "object" -> IsObject(n)
          [] c = "undefined" -> IsUndefined(n)
          [] c = "null" -> IsNull(n)}

ReferenceTag(cats) ==
    IF "int32" \in cats THEN "Int"
    ELSE IF cats \cap {"number", "numberObject"} # {} THEN "Double"
    ELSE IF cats \cap {"boolean", "booleanObject"} # {} THEN "Bool"
    ELSE IF cats \cap {"string", "stringObject"} # {} THEN "String"
    ELSE IF "array" \in cats THEN "Array"
    ELSE IF "function" \in cats THEN "Function"
    ELSE IF "object" \in cats THEN "Object"
    ELSE IF cats \cap {"null", "undefined"} # {} THEN "Absent"
    ELSE "fault"

ConversionThrows(n) == n.kind \in {"NumberObject", "StringObject"} /\ n.throws

C8_WrapPrecedence ==
    wrapOut # NotWrapped =>
        LET ref == ReferenceTag(Categories(wrapIn))
        IN  /\ wrapOut.out = "ok" => wrapOut.value.tag = ref
            /\ wrapOut.out = "runtime" <=> ref = "fault"
            /\ wrapOut.out = "script" <=> ConversionThrows(wrapIn)
            /\ wrapOut.out = "script" => ref \in {"Double", "String"}

C8_Witness ==
    /\ wrapIn.kind = "NumberObject"
    /\ "object" \in Categories(wrapIn)
    /\ wrapOut.out = "ok"
    /\ wrapOut.value.tag = "Double"

(***************************************************************************)
(* Operations that end in a fault, and what they leave behind.             *)
(***************************************************************************)
\* the step is a Get, Set, CallMethod or Evaluate in which a script fault or
\* a runtime fault was raised
FaultStep ==
    /\ last'.op \in {"Get", "Set", "CallMethod", "Evaluate"}
    /\ last'.escaped # "crash"
    /\ \/ last'.rtReports + last'.seReports > 0
       \/ last'.escaped # "none"

\* the script of the operation ran far enough to assign the global x
ScriptAssigned == last'.op = "Evaluate" /\ last'.ran /\ RunAssigns(last'.src)

\* what a following Object::Get(k) on the global object's wrapper ends as
FollowingGet(k) == WrapMaybe(FALSE, props[k])

(***************************************************************************)
(* C11 as stated: after an operation that ended in a fault the slot, the   *)
(* Contexts and the handlers are as before, and a following Get on the     *)
(* global object's wrapper gives what it would have given had the failed   *)
(* operation not happened.                                                 *)
(***************************************************************************)
C11_AsStated ==
    [][FaultStep =>
        /\ UNCHANGED <<globalContext, contexts, handlerRefs, objOwner>>
        /\ \A k \in Keys : FollowingGet(k)' = FollowingGet(k)
      ]_vars

(***************************************************************************)
(* C11, amended: a Get, Set, CallMethod or Evaluate in which a fault is    *)
(* raised catches it, and leaves the slot, every Context's isolates,       *)
(* execution context and handlers, the handler counts and the embedder's   *)
(* wrapper as they were, so that a following Evaluate ends as it would     *)
(* have.  What the failed operation's script assigned before the fault     *)
(* stays assigned; when it assigned nothing, a following Get ends as it    *)
(* would have.                                                             *)
(***************************************************************************)
C11_FaultsLocal ==
    [][FaultStep =>
        /\ last'.escaped = "none"
        /\ ~crashed'
        /\ UNCHANGED <<globalContext, contexts, platformInits, handlerRefs, objOwner>>
        /\ WrapperUsable' = WrapperUsable
        /\ globalContext # 0 =>
                \A code \in Sources :
                    EvaluateResult(globalContext, code)' = EvaluateResult(globalContext, code)
        /\ props' # props => ScriptAssigned
        /\ ~ScriptAssigned => \A k \in Keys : FollowingGet(k)' = FollowingGet(k)
      ]_vars

C11_Witness ==
    /\ last.op = "Evaluate"
    /\ last.src = "x = Symbol()"
    /\ last.rtReports = 1
    /\ last.escaped = "none"
    /\ props["x"] = NSymbol
    /\ globalContext # 0
    /\ globalContext = last.slotBefore
    /\ contexts[globalContext].isolate = "alive"

(***************************************************************************)
(* C12 as stated: when wrapping one of the native arguments of a bridged   *)
(* invocation faults, whichever the fault (a value of unsupported          *)
(* category, or a conversion that throws in the guard's capture region),   *)
(* the fault is reported to the runtime-fault handler, nothing is thrown   *)
(* out of the native function, and Callback::Call is entered with the      *)
(* arguments wrapped before the fault.                                     *)
(***************************************************************************)
\* the bridged invocation last made met a fault while wrapping info[]
ArgumentFault == last.op = "Callback" /\ WrapArgs(info).out # "ok"

C12_AsStated ==
    ArgumentFault =>
        /\ last.escaped = "none"
        /\ last.rtReports = 1
        /\ last.rtHandled = (IF last.hadRt THEN 1 ELSE 0)
        /\ original = WrapArgs(info).values
        /\ Len(taken) = Len(original)

(***************************************************************************)
(* V8Scope, member by member: the guards the operations open, nested on    *)
(* one thread (an operation whose script calls the bridged function, whose *)
(* Callback calls an operation again).                                     *)
(***************************************************************************)
\* the members of V8Scope in the order of their declaration
GuardOrder == <<"Locker", "IsolateScope", "HandleScope", "ContextScope", "TryCatch">>
\* the constructor: the member constructed when n members are constructed
Acquiring(n) == GuardOrder[n + 1]
\* (a destruction in the order of declaration)
ReleasingForward(n) == GuardOrder[Len(GuardOrder) + 1 - n]
\* the destructor: the member destroyed when n members are left
Releasing(n) == GuardOrder[n]

\* s without its last r
RemoveLast(s, r) ==
    LET at == {i \in 1 .. Len(s) : s[i] = r}
        m == CHOOSE i \in at : \A j \in at : j <= i
    IN  SubSeq(s, 1, m - 1) \o SubSeq(s, m + 1, Len(s))

\* the operations that declare a V8Scope
PublicOps == {"Evaluate", "Get", "Set", "CallMethod", "GlobalObject"}
\* the operations that run script code
RunsScript(op) == op \in {"Evaluate", "CallMethod"}
\* the catch clauses after the try block that holds the V8Scope
OpCatches(op) ==
    CASE op = "Evaluate" -> EvaluateCatches
      [] op = "Get" -> ObjectGetCatches
      [] op = "Set" -> {"script"}
      [] op = "GlobalObject" -> {}
      [] OTHER -> {"script", "runtime"}
\* the ways the block that holds the V8Scope is left
OpOutcomes(op) ==
    CASE op = "Set" -> {"ok", "script"}
      [] op = "GlobalObject" -> {"ok"}
      [] OTHER -> {"ok", "script", "runtime"}

engineVars == <<globalContext, contexts, platformInits, handlerRefs, props, objOwner>>

Top == frames[Len(frames)]
SetTop(f) == [frames EXCEPT ![Len(frames)] = f]
Frame(op) == [op |-> op, pc |-> "acquire", n |-> 0, exit |-> "none", before |-> held]

\* the embedder calls a public operation, from outside or from Callback::Call
BeginOp(op, nullArg) ==
    /\ ~crashed
    /\ globalContext # 0
    /\ IF frames = <<>> THEN TRUE ELSE Top.op = "Callback" /\ Top.pc = "call"
    /\ IF nullArg
       THEN /\ op # "GlobalObject"
            /\ returned' = [op |-> op, exit |-> "early", before |-> held, after |-> held]
            /\ last' = NullArgument(op, 0, Absent)
            /\ UNCHANGED <<held, frames>>
       ELSE /\ Len(frames) < MaxDepth
            /\ frames' = Append(frames, Frame(op))
            /\ UNCHANGED <<held, returned, last>>
    /\ UNCHANGED <<engineVars, crashed, wrapVars, refVars, callVars>>

\* V8Scope's constructor initialises the next member
AcquireMember ==
    /\ ~crashed
    /\ frames # <<>>
    /\ Top.pc = "acquire"
    /\ held' = Append(held, Acquiring(Top.n))
    /\ frames' = SetTop([Top EXCEPT !.n = @ + 1,
                                    !.pc = IF Top.n + 1 = Len(GuardOrder)
                                           THEN "body" ELSE "acquire"])
    /\ UNCHANGED <<returned, lifeVars, wrapVars, refVars, callVars>>

\* the script the operation runs calls a bridged function: the function
\* callback begins with V8Scope scope
EngineCallsBridge ==
    /\ ~crashed
    /\ frames # <<>>
    /\ Top.pc = "body"
    /\ RunsScript(Top.op)
    /\ \E f \in 1 .. MaxFns : fns[f] = "live"
    /\ Len(frames) < MaxDepth
    /\ frames' = Append(frames, Frame("Callback"))
    /\ UNCHANGED <<held, returned, lifeVars, wrapVars, refVars, callVars>>

\* the block that holds the V8Scope is left, by return or by exception
BodyEnds(outcome) ==
    /\ ~crashed
    /\ frames # <<>>
    /\ Top.pc = "body"
    /\ Top.op \in PublicOps
    /\ outcome \in OpOutcomes(Top.op)
    /\ frames' = SetTop([Top EXCEPT !.pc = "release", !.exit = outcome])
    /\ UNCHANGED <<held, returned, lifeVars, wrapVars, refVars, callVars>>

\* the loop that wraps info[] ends.  A std::runtime_error is caught inside
\* the function callback; a ScriptException leaves it through the engine's
\* frames, where the build either terminates or unwinds
ArgsWrapped(outcome) ==
    /\ ~crashed
    /\ frames # <<>>
    /\ Top.pc = "body"
    /\ Top.op = "Callback"
    /\ IF outcome \in {"ok"} \cup CallbackCatches
       THEN /\ frames' = SetTop([Top EXCEPT !.pc = "call"])
            /\ UNCHANGED crashed
       ELSE \/ crashed' = TRUE /\ UNCHANGED frames
            \/ /\ frames' = SetTop([Top EXCEPT !.pc = "release", !.exit = outcome])
               /\ UNCHANGED crashed
    /\ UNCHANGED <<held, returned, engineVars, last, wrapVars, refVars, callVars>>

\* Callback::Call returns; the function callback runs to its end
CallReturns ==
    /\ ~crashed
    /\ frames # <<>>
    /\ Top.pc = "call"
    /\ frames' = SetTop([Top EXCEPT !.pc = "release", !.exit = "ok"])
    /\ UNCHANGED <<held, returned, lifeVars, wrapVars, refVars, callVars>>

\* V8Scope's destructor destroys the next member
ReleaseMember ==
    /\ ~crashed
    /\ frames # <<>>
    /\ Top.pc = "release"
    /\ Top.n > 0
    /\ held' = RemoveLast(held, Releasing(Top.n))
    /\ frames' = SetTop([Top EXCEPT !.n = @ - 1])
    /\ UNCHANGED <<returned, lifeVars, wrapVars, refVars, callVars>>

\* the V8Scope is gone: the catch clause, if the block was left by an
\* exception, and the return.  An exception that left the function callback
\* arrives in the try block of the operation whose script called it
Return ==
    /\ ~crashed
    /\ frames # <<>>
    /\ Top.pc = "release"
    /\ Top.n = 0
    /\ LET rest == SubSeq(frames, 1, Len(frames) - 1)
           body == CASE Top.exit = "script" -> ThrowScript
                     [] Top.exit = "runtime" -> ThrowRuntime
                     [] OTHER -> Ok(Absent)
       IN  IF Top.op \in PublicOps
           THEN /\ frames' = rest
                /\ returned' = [op |-> Top.op, exit |-> Top.exit,
                                before |-> Top.before, after |-> held]
                /\ last' = Finish(Top.op, 0, "", body, OpCatches(Top.op), Absent,
                                  1, FALSE, FALSE)
           ELSE /\ frames' = IF Top.exit = "ok" THEN rest
                             ELSE [rest EXCEPT ![Len(rest)] =
                                        [@ EXCEPT !.pc = "release", !.exit = Top.exit]]
                /\ UNCHANGED <<returned, last>>
    /\ UNCHANGED <<held, engineVars, crashed, wrapVars, refVars, callVars>>

InitGuard ==
    /\ LifeReady
    /\ WrapIdle
    /\ BridgeIdle
    /\ GuardIdle

NextGuard ==
    \/ frames = <<>> /\ ObjectSetCallback("x")
    \/ \E op \in PublicOps, nullArg \in BOOLEAN : BeginOp(op, nullArg)
    \/ AcquireMember
    \/ EngineCallsBridge
    \/ \E outcome \in {"ok", "script", "runtime"} : BodyEnds(outcome)
    \/ \E outcome \in {"ok", "script", "runtime"} : ArgsWrapped(outcome)
    \/ CallReturns
    \/ ReleaseMember
    \/ Return

SpecGuard == InitGuard /\ [][NextGuard]_vars

(***************************************************************************)
(* C13: the members held are, guard by guard from the outermost, the       *)
(* members of V8Scope in the order Locker, IsolateScope, HandleScope,      *)
(* ContextScope, TryCatch up to the one the guard has reached, so they are *)
(* acquired in that order and released in the reverse order, whichever way *)
(* the guarded block is left; a guard is opened only inside complete       *)
(* guards, and the lock is held once per guard, re-entrantly; and when a   *)
(* public operation has returned (normally, early, or after a script fault *)
(* or a runtime fault) the members held, and so the nesting depth and the  *)
(* lock's hold count, are those held when it was called.                   *)
(***************************************************************************)
RECURSIVE HeldBy(_)
HeldBy(fs) ==
    IF fs = <<>> THEN <<>>
    ELSE SubSeq(GuardOrder, 1, Head(fs).n) \o HeldBy(Tail(fs))

LockHolds == Cardinality({i \in 1 .. Len(held) : held[i] = "Locker"})

C13_GuardDiscipline ==
    /\ held = HeldBy(frames)
    /\ \A i \in 1 .. Len(frames) :
            /\ i < Len(frames) => frames[i].n = Len(GuardOrder)
            /\ frames[i].pc \in {"body", "call"} => frames[i].n = Len(GuardOrder)
    /\ LockHolds = Cardinality({i \in 1 .. Len(frames) : frames[i].n > 0})
    /\ returned.op # "none" =>
            /\ returned.exit \in {"ok", "early", "script", "runtime"}
            /\ returned.after = returned.before
    /\ frames = <<>> => held = <<>>

C13_Witness ==
    /\ Len(frames) = 2
    /\ frames[1].op = "Evaluate"
    /\ frames[2].op = "Callback"
    /\ frames[2].pc = "call"
    /\ returned.op = "Get"
    /\ returned.exit = "script"
    /\ Len(returned.before) = 2 * Len(GuardOrder)
    /\ returned.after = returned.before
    /\ LockHolds = 2

(***************************************************************************)
(* C14: a Construct that succeeds retains each handler it is given once    *)
(* (none for a null handler); the destructor of a constructed Context      *)
(* releases each handler it holds once and nulls both fields; no other     *)
(* step retains or releases.  So each handler's retains minus its releases *)
(* is the number of constructed, undestroyed Contexts that hold it: never  *)
(* negative, and zero when every lifetime is complete.                     *)
(***************************************************************************)
Holders(field) ==
    Cardinality({c \in CtxIds : contexts[c].state = "live" /\ contexts[c][field] # 0})

Balanced ==
    /\ handlerRefs.seReleases <= handlerRefs.seRetains
    /\ handlerRefs.rtReleases <= handlerRefs.rtRetains
    /\ handlerRefs.seRetains - handlerRefs.seReleases = Holders("seh")
    /\ handlerRefs.rtRetains - handlerRefs.rtReleases = Holders("reh")
    /\ (\A c \in CtxIds : contexts[c].state # "live") =>
            /\ handlerRefs.seRetains = handlerRefs.seReleases
            /\ handlerRefs.rtRetains = handlerRefs.rtReleases

C14_HandlerBalance ==
    [][/\ \A c \in CtxIds :
            (contexts[c].state = "unborn" /\ contexts'[c].state = "live") =>
                handlerRefs' = [handlerRefs EXCEPT
                    !.seRetains = @ + (IF contexts'[c].seh # 0 THEN 1 ELSE 0),
                    !.rtRetains = @ + (IF contexts'[c].reh # 0 THEN 1 ELSE 0)]
       /\ \A c \in CtxIds :
            (contexts[c].state = "live" /\ contexts'[c].state # "live") =>
                /\ handlerRefs' = [handlerRefs EXCEPT
                        !.seReleases = @ + (IF contexts[c].seh # 0 THEN 1 ELSE 0),
                        !.rtReleases = @ + (IF contexts[c].reh # 0 THEN 1 ELSE 0)]
                /\ contexts'[c].seh = 0
                /\ contexts'[c].reh = 0
       /\ (\A c \in CtxIds : contexts'[c].state = "live" <=> contexts[c].state = "live") =>
            UNCHANGED handlerRefs
       /\ Balanced
       /\ Balanced'
      ]_vars

C14_Witness ==
    /\ \A c \in CtxIds : contexts[c].state = "destroyed"
    /\ handlerRefs.seRetains = 2
    /\ handlerRefs.seReleases = 2
    /\ handlerRefs.rtRetains = 2
    /\ handlerRefs.rtReleases = 2

(***************************************************************************)
(* C15 as stated: the slot changes only when a Construct succeeds or the   *)
(* Context in the slot is destroyed; and the destructor of a Context whose *)
(* construction was rejected leaves the slot, every Context's isolates and *)
(* handlers and the handler counts as they were, and the process alive.    *)
(***************************************************************************)
\* the step runs the destructor of a Context whose constructor returned at
\* its re-entrancy check
RejectedDestroyed == last'.op = "Destruct" /\ contexts[last'.self].state = "rejected"

C15_AsStated ==
    [][/\ globalContext' # globalContext =>
            \/ /\ globalContext = 0
               /\ contexts[globalContext'].state = "unborn"
               /\ contexts'[globalContext'].state = "live"
            \/ /\ globalContext' = 0
               /\ contexts[globalContext].state = "live"
               /\ contexts'[globalContext].state = "destroyed"
       /\ RejectedDestroyed =>
            /\ globalContext' = globalContext
            /\ ~crashed'
            /\ UNCHANGED handlerRefs
            /\ \A c \in CtxIds : c # last'.self => contexts'[c] = contexts[c]
      ]_vars

====
